---- MODULE Spec2Model ----
(***************************************************************************)
(* Model of osm-rels-svg (src/main.rs): the render pass that turns the     *)
(* requested ways and relations of an OSM extract into an SVG document.    *)
(*                                                                         *)
(* Coordinates are whole degrees, angles are micro-radians and planar      *)
(* coordinates are whole SCALE units (fixed point instead of f64).  Text   *)
(* whose characters matter (tag values) is a sequence of one-character     *)
(* strings.  A typed identifier OsmId is a pair <<kind, number>>.          *)
(***************************************************************************)
EXTENDS Integers, Sequences, FiniteSets, TLC

VARIABLES
    objs,       \* BTreeMap<OsmId, OsmObj> returned by get_objs_and_deps
    relations,  \* requested relation ids not yet visited by main's first loop
    ways,       \* requested way ids not yet visited by main's second loop
    pc,         \* position of main: "relations", "ways", "viewport", "done", or "overflow"
                \* once the process has died of stack exhaustion
    stack,      \* active relation_to_group calls, innermost last
    bound,      \* the Bound threaded through the pass
    svg,        \* the Document
    stderr,     \* lines written by eprintln!
    reqRels,    \* history: the requested relation ids as read
    reqWays,    \* history: the requested way ids as read
    updates,    \* history: the nodes passed to Bound::update, in call order
    lookups,    \* history: every objs.get of the pass, in call order
    maxDepth,   \* history: the deepest nesting of relation_to_group so far
    last        \* history: the call that completed in the last step

vars == <<objs, relations, ways, pc, stack, bound, svg, stderr,
          reqRels, reqWays, updates, lookups, maxDepth, last>>

----------------------------------------------------------------------------
(* Bounds of the model *)

MaxId == 2          \* nodes, ways and relations have the ids 1..MaxId
MaxNodeRefs == 2    \* node references in one extract, all ways together
MaxMemberRefs == 2  \* member references in one extract, all relations together
MaxDepth == 4       \* relation_to_group frames the call stack has room for

Ids == 1..MaxId

----------------------------------------------------------------------------
(* Values *)

Min(S) == CHOOSE x \in S : \A y \in S : x <= y
Max(S) == CHOOSE x \in S : \A y \in S : x >= y
MinOf(a, b) == IF a <= b THEN a ELSE b
MaxOf(a, b) == IF a >= b THEN a ELSE b

NodeRef(n) == <<"Node", n>>
WayRef(w) == <<"Way", w>>
RelRef(r) == <<"Relation", r>>

NodeObj(n, la, lo) == [kind |-> "Node", id |-> n, lat |-> la, lon |-> lo]
WayObj(w, t, ns) == [kind |-> "Way", id |-> w, tags |-> t, nodes |-> ns]
RelObj(r, t, ms) == [kind |-> "Relation", id |-> r, tags |-> t, refs |-> ms]

NoTags == [k \in {} |-> <<>>]

\* arguments of eprintln!: a number by Display, an OsmId by Debug
Num(n) == [kind |-> "", id |-> n]
Dbg(ref) == [kind |-> ref[1], id |-> ref[2]]

\* the caller of an objs.get made by main itself
Main == <<"main", 0>>

\* one objs.get as remembered in lookups
Lookup(os, ref, by) == [ref |-> ref, by |-> by, found |-> ref \in DOMAIN os]

----------------------------------------------------------------------------
(* project, project_node *)

SCALE == 6371 * 100

\* f64::to_radians, in micro-radians
ToRadians(deg) == deg * 17453

\* ln(tan(-lat/2 + PI/4)) * SCALE at the latitudes of the model
LnTan(lat) ==
    CASE lat = ToRadians(-3) -> 33373
      [] lat = ToRadians(-2) -> 22243
      [] lat = ToRadians(-1) -> 11120
      [] lat = ToRadians(0) -> 0
      [] lat = ToRadians(1) -> -11120
      [] lat = ToRadians(2) -> -22243
      [] lat = ToRadians(3) -> -33373

Trunc(a, b) == IF a >= 0 THEN a \div b ELSE -((-a) \div b)

\* lon * SCALE for lon in micro-radians, kept within 32 bits
project(lat, lon) == <<Trunc(lon * (SCALE \div 100), 10000), LnTan(lat)>>

project_node(node) == project(ToRadians(node.lat), ToRadians(node.lon))

----------------------------------------------------------------------------
(* Bound *)

Range(s, e) == [start |-> s, end |-> e]

Bound_new == [lat |-> Range(0, 0), lon |-> Range(0, 0)]

is_empty(b) == b = Bound_new

update(b, node) ==
    IF is_empty(b)
    THEN [lat |-> Range(node.lat, node.lat), lon |-> Range(node.lon, node.lon)]
    ELSE [lat |-> Range(MinOf(b.lat.start, node.lat), MaxOf(b.lat.end, node.lat)),
          lon |-> Range(MinOf(b.lon.start, node.lon), MaxOf(b.lon.end, node.lon))]

----------------------------------------------------------------------------
(* svg elements: a name, an attribute map and the children *)

Element(name) == [name |-> name, attrs |-> [k \in {} |-> 0], children |-> <<>>]

SetAttr(el, k, v) == [el EXCEPT !.attrs = (k :> v) @@ el.attrs]

\* Add with the child put first
Add_Front(el, child) == [el EXCEPT !.children = <<child>> \o el.children]

Add(el, child) == [el EXCEPT !.children = Append(el.children, child)]

HasAttr(el, k) == k \in DOMAIN el.attrs

starts_with(s, c) == Len(s) >= 1 /\ s[1] = c

\* set_stroke without the test on the first character
set_stroke_AnyColour(node, tags) ==
    IF "colour" \in DOMAIN tags
    THEN SetAttr(node, "stroke", tags["colour"])
    ELSE node

set_stroke(node, tags) ==
    IF "colour" \in DOMAIN tags /\ starts_with(tags["colour"], "#")
    THEN SetAttr(node, "stroke", tags["colour"])
    ELSE node

DocumentNew ==
    SetAttr(SetAttr(SetAttr(SetAttr(Element("svg"),
        "stroke", "#000000"),
        "stroke-width", (35 * SCALE) \div 100),    \* 0.0000035 * SCALE, in 1/100000
        "stroke-linecap", "round"),
        "stroke-linejoin", "round")

----------------------------------------------------------------------------
(* way_to_path *)

\* the state of the loop over way.nodes
WayLoopStart(b) ==
    [data |-> <<>>, first |-> TRUE, bound |-> b,
     err |-> <<>>, updates |-> <<>>, lookups |-> <<>>]

move_to(data, pt) == Append(data, [cmd |-> "M", to |-> pt])
line_to(data, pt) == Append(data, [cmd |-> "L", to |-> pt])

\* the loop body with first never cleared: every point is a move
WayLoopBody_FirstKept(os, way, n, s) ==
    LET look == Lookup(os, NodeRef(n), WayRef(way.id))
    IN  IF NodeRef(n) \in DOMAIN os
        THEN LET node == os[NodeRef(n)]
             IN  [s EXCEPT
                    !.bound = update(s.bound, node),
                    !.data = move_to(s.data, project_node(node)),
                    !.updates = Append(s.updates, node),
                    !.lookups = Append(s.lookups, look)]
        ELSE [s EXCEPT
                !.err = Append(s.err, [fmt |-> "node {} not found", args |-> <<Num(n)>>]),
                !.lookups = Append(s.lookups, look)]

\* one iteration of the loop, for the node reference n of way
WayLoopBody(os, way, n, s) ==
    LET look == Lookup(os, NodeRef(n), WayRef(way.id))
    IN  IF NodeRef(n) \in DOMAIN os
        THEN LET node == os[NodeRef(n)]
             IN  [s EXCEPT
                    !.bound = update(s.bound, node),
                    !.data = IF s.first THEN move_to(s.data, project_node(node))
                                        ELSE line_to(s.data, project_node(node)),
                    !.first = FALSE,
                    !.updates = Append(s.updates, node),
                    !.lookups = Append(s.lookups, look)]
        ELSE [s EXCEPT
                !.err = Append(s.err, [fmt |-> "node {} not found", args |-> <<Num(n)>>]),
                !.lookups = Append(s.lookups, look)]

RECURSIVE WayLoop(_, _, _, _)
WayLoop(os, way, i, s) ==
    IF i > Len(way.nodes) THEN s
    ELSE WayLoop(os, way, i + 1, WayLoopBody(os, way, way.nodes[i], s))

\* the Path returned, with the effects of the call on bound and stderr
way_to_path(os, b, way) ==
    LET s == WayLoop(os, way, 1, WayLoopStart(b))
    IN  [path |-> SetAttr(SetAttr(SetAttr(set_stroke(Element("path"), way.tags),
                     "id", way.id), "fill", "none"), "d", s.data),
         bound |-> s.bound, err |-> s.err,
         updates |-> s.updates, lookups |-> s.lookups]

----------------------------------------------------------------------------
(* The extract and get_objs_and_deps *)

Range_(f) == {f[i] : i \in DOMAIN f}

Deps(obj) ==
    IF obj.kind = "Way" THEN {NodeRef(n) : n \in Range_(obj.nodes)}
    ELSE IF obj.kind = "Relation" THEN Range_(obj.refs)
    ELSE {}

RECURSIVE DepClosure(_, _)
DepClosure(file, S) ==
    LET T == S \cup UNION {Deps(file[r]) : r \in S \cap DOMAIN file}
    IN  IF T = S THEN S ELSE DepClosure(file, T)

\* the requested ways and relations of the file and everything they depend on
get_objs_and_deps(file, ws, rs) ==
    LET roots == {WayRef(w) : w \in ws} \cup {RelRef(r) : r \in rs}
        keep == DepClosure(file, roots) \cap DOMAIN file
    IN  [ref \in keep |-> file[ref]]

SeqsUpTo(S, n) == UNION {[1..k -> S] : k \in 0..n}

Points == {<<0, 0>>, <<1, -1>>, <<-1, 2>>}

TagKeys == {"colour", "color", "stroke"}
TagValues == {<<"#", "f", "0", "0">>, <<"r", "e", "d">>, <<"#">>, <<>>}
TagMaps == UNION {[K -> TagValues] : K \in SUBSET TagKeys}

Red == [k \in {"colour"} |-> <<"#", "f", "0", "0">>]
Named == [k \in {"colour"} |-> <<"r", "e", "d">>]

\* a file from what is present in it
MakeFile(nodeAt, wayNodes, wayTags, relRefs, relTags) ==
    [ref \in {NodeRef(n) : n \in DOMAIN nodeAt}
             \cup {WayRef(w) : w \in DOMAIN wayNodes}
             \cup {RelRef(r) : r \in DOMAIN relRefs} |->
        IF ref[1] = "Node" THEN NodeObj(ref[2], nodeAt[ref[2]][1], nodeAt[ref[2]][2])
        ELSE IF ref[1] = "Way" THEN WayObj(ref[2], wayTags[ref[2]], wayNodes[ref[2]])
        ELSE RelObj(ref[2], relTags[ref[2]], relRefs[ref[2]])]

Start(file, ws, rs) ==
    /\ objs = get_objs_and_deps(file, ws, rs)
    /\ relations = rs
    /\ ways = ws
    /\ pc = "relations"
    /\ stack = <<>>
    /\ bound = Bound_new
    /\ svg = DocumentNew
    /\ stderr = <<>>
    /\ reqRels = rs
    /\ reqWays = ws
    /\ updates = <<>>
    /\ lookups = <<>>
    /\ maxDepth = 0
    /\ last = [op |-> "none"]

\* the references of the owner o in a list of <<owner, reference>> pairs
Part(flat, o) ==
    LET Mine(p) == p[1] = o
        mine == SelectSeq(flat, Mine)
    IN  [i \in 1..Len(mine) |-> mine[i][2]]

\* the pairs of a list come owner by owner
Grouped(flat) == \A i \in 1..(Len(flat) - 1) : flat[i][1] <= flat[i + 1][1]

\* extracts of ways only, all ways requested: every sharing of at most
\* MaxNodeRefs node references among the ways of the file, every placing of
\* the nodes referred to that are in the file
InitWays ==
    \E WP \in SUBSET Ids :
      \E flat \in SeqsUpTo(WP \X Ids, MaxNodeRefs) :
        /\ Grouped(flat)
        /\ \E NP \in SUBSET {flat[i][2] : i \in DOMAIN flat} :
             \E nodeAt \in [NP -> Points] :
               Start(MakeFile(nodeAt,
                              [w \in WP |-> Part(flat, w)],
                              [w \in WP |-> IF w = 1 THEN Red ELSE NoTags],
                              <<>>, <<>>),
                     Ids, {})

MemberRefs == {NodeRef(1), NodeRef(2), WayRef(1)} \cup {RelRef(r) : r \in Ids}

\* extracts of relations: node 1 and way 1 are in the file, node 2 and way 2
\* are not, both ways are requested and so are the relations 1..k for a k
\* of ks; every sharing of at most MaxMemberRefs member references among
\* the relations of the file
InitRelations(ks) ==
    \E RP \in SUBSET Ids, k \in ks :
      \E flat \in SeqsUpTo(RP \X MemberRefs, MaxMemberRefs) :
        /\ Grouped(flat)
        /\ Start(MakeFile([n \in {1} |-> <<1, -1>>],
                          [w \in {1} |-> <<1, 2>>],
                          [w \in {1} |-> Red],
                          [r \in RP |-> Part(flat, r)],
                          [r \in RP |-> IF r = 2 THEN Named ELSE NoTags]),
                 {1, 2}, 1..k)

InitRels == InitRelations(0..MaxId)

\* extracts of one relation holding one way, with every tag map on either
InitTags ==
    \E t \in TagMaps, u \in TagMaps :
        /\ t = NoTags \/ u = NoTags \/ t = u
        /\ Start(MakeFile(<<>>, [w \in {1} |-> <<>>], [w \in {1} |-> t],
                          [r \in {1} |-> <<WayRef(1)>>], [r \in {1} |-> u]),
                 {1}, {1})

Init == InitWays \/ InitRels \/ InitTags

----------------------------------------------------------------------------
(* main and relation_to_group *)

\* iteration from the greatest id down
next_id_Last(S) == Max(S)

\* a BTreeSet is iterated in ascending order
next_id(S) == Min(S)

Top == stack[Len(stack)]

\* entry of relation_to_group: the group before the loop over rel.refs
Frame(rel) ==
    [rel |-> rel, i |-> 1,
     group |-> SetAttr(set_stroke(Element("g"), rel.tags), "id", rel.id)]

\* the loop over rel.refs of the innermost call moves to the next member
Advance(st) == [st EXCEPT ![Len(st)].i = @ + 1]

\* main, first loop: the next requested relation is in objs
MainRelationFound ==
    /\ pc = "relations" /\ stack = <<>> /\ relations # {}
    /\ LET rel == next_id(relations) IN
        /\ RelRef(rel) \in DOMAIN objs
        /\ relations' = relations \ {rel}
        /\ stack' = <<Frame(objs[RelRef(rel)])>>
        /\ maxDepth' = MaxOf(maxDepth, 1)
        /\ lookups' = Append(lookups, Lookup(objs, RelRef(rel), Main))
    /\ last' = [op |-> "call"]
    /\ UNCHANGED <<objs, ways, pc, bound, svg, stderr, reqRels, reqWays, updates>>

\* the first loop with a missing relation made fatal: main returns an error
MainRelationMissing_Fatal ==
    /\ pc = "relations" /\ stack = <<>> /\ relations # {}
    /\ LET rel == next_id(relations) IN
        /\ RelRef(rel) \notin DOMAIN objs
        /\ stderr' = Append(stderr, [fmt |-> "relation {} not found", args |-> <<Num(rel)>>])
        /\ lookups' = Append(lookups, Lookup(objs, RelRef(rel), Main))
    /\ pc' = "failed"
    /\ last' = [op |-> "skip"]
    /\ UNCHANGED <<objs, relations, ways, stack, bound, svg, reqRels, reqWays, updates, maxDepth>>

\* main, first loop: the next requested relation is not in objs
MainRelationMissing ==
    /\ pc = "relations" /\ stack = <<>> /\ relations # {}
    /\ LET rel == next_id(relations) IN
        /\ RelRef(rel) \notin DOMAIN objs
        /\ relations' = relations \ {rel}
        /\ stderr' = Append(stderr, [fmt |-> "relation {} not found", args |-> <<Num(rel)>>])
        /\ lookups' = Append(lookups, Lookup(objs, RelRef(rel), Main))
    /\ last' = [op |-> "skip"]
    /\ UNCHANGED <<objs, ways, pc, stack, bound, svg, reqRels, reqWays, updates, maxDepth>>

\* main: the first loop is over
MainRelationsEnd ==
    /\ pc = "relations" /\ stack = <<>> /\ relations = {}
    /\ pc' = "ways"
    /\ last' = [op |-> "none"]
    /\ UNCHANGED <<objs, relations, ways, stack, bound, svg, stderr,
                   reqRels, reqWays, updates, lookups, maxDepth>>

\* relation_to_group: the next member is not in objs
MemberMissing ==
    /\ pc = "relations" /\ stack # <<>> /\ Top.i <= Len(Top.rel.refs)
    /\ LET r == Top.rel.refs[Top.i] IN
        /\ r \notin DOMAIN objs
        /\ stderr' = Append(stderr, [fmt |-> "ref {:?} of relation {} not found",
                                     args |-> <<Dbg(r), Num(Top.rel.id)>>])
        /\ lookups' = Append(lookups, Lookup(objs, r, RelRef(Top.rel.id)))
        /\ stack' = Advance(stack)
    /\ last' = [op |-> "skip"]
    /\ UNCHANGED <<objs, relations, ways, pc, bound, svg, reqRels, reqWays, updates, maxDepth>>

\* relation_to_group: the next member is a way
MemberWay ==
    /\ pc = "relations" /\ stack # <<>> /\ Top.i <= Len(Top.rel.refs)
    /\ LET r == Top.rel.refs[Top.i] IN
        /\ r \in DOMAIN objs /\ objs[r].kind = "Way"
        /\ LET res == way_to_path(objs, bound, objs[r]) IN
            /\ stack' = Advance([stack EXCEPT ![Len(stack)].group = Add(@, res.path)])
            /\ bound' = res.bound
            /\ stderr' = stderr \o res.err
            /\ updates' = updates \o res.updates
            /\ lookups' = Append(lookups, Lookup(objs, r, RelRef(Top.rel.id))) \o res.lookups
            /\ last' = [op |-> "way_to_path", way |-> objs[r].id, before |-> bound,
                        path |-> res.path, updates |-> res.updates]
    /\ UNCHANGED <<objs, relations, ways, pc, svg, reqRels, reqWays, maxDepth>>

\* relation_to_group with a guard: a relation that is being rendered is not
\* entered again but passed over
MemberRelation_Guarded ==
    /\ pc = "relations" /\ stack # <<>> /\ Top.i <= Len(Top.rel.refs)
    /\ LET r == Top.rel.refs[Top.i] IN
        /\ r \in DOMAIN objs /\ objs[r].kind = "Relation"
        /\ lookups' = Append(lookups, Lookup(objs, r, RelRef(Top.rel.id)))
        /\ IF \E k \in DOMAIN stack : stack[k].rel.id = r[2]
           THEN /\ stack' = Advance(stack)
                /\ UNCHANGED <<maxDepth, pc>>
           ELSE IF Len(stack) < MaxDepth
           THEN /\ stack' = Append(Advance(stack), Frame(objs[r]))
                /\ maxDepth' = MaxOf(maxDepth, Len(stack) + 1)
                /\ pc' = pc
           ELSE /\ pc' = "overflow"
                /\ UNCHANGED <<stack, maxDepth>>
    /\ last' = [op |-> "call"]
    /\ UNCHANGED <<objs, relations, ways, bound, svg, stderr, reqRels, reqWays, updates>>

\* relation_to_group: the next member is a relation; the call is made if
\* the stack has room for it and the process dies of stack overflow if not
MemberRelation ==
    /\ pc = "relations" /\ stack # <<>> /\ Top.i <= Len(Top.rel.refs)
    /\ LET r == Top.rel.refs[Top.i] IN
        /\ r \in DOMAIN objs /\ objs[r].kind = "Relation"
        /\ lookups' = Append(lookups, Lookup(objs, r, RelRef(Top.rel.id)))
        /\ IF Len(stack) < MaxDepth
           THEN /\ stack' = Append(Advance(stack), Frame(objs[r]))
                /\ maxDepth' = MaxOf(maxDepth, Len(stack) + 1)
                /\ pc' = pc
           ELSE /\ pc' = "overflow"
                /\ UNCHANGED <<stack, maxDepth>>
    /\ last' = [op |-> "call"]
    /\ UNCHANGED <<objs, relations, ways, bound, svg, stderr, reqRels, reqWays, updates>>

\* relation_to_group: the next member is a node
MemberNode ==
    /\ pc = "relations" /\ stack # <<>> /\ Top.i <= Len(Top.rel.refs)
    /\ LET r == Top.rel.refs[Top.i] IN
        /\ r \in DOMAIN objs /\ objs[r].kind = "Node"
        /\ lookups' = Append(lookups, Lookup(objs, r, RelRef(Top.rel.id)))
        /\ stack' = Advance(stack)
    /\ last' = [op |-> "skip"]
    /\ UNCHANGED <<objs, relations, ways, pc, bound, svg, stderr,
                   reqRels, reqWays, updates, maxDepth>>

\* relation_to_group returns its group, to the calling relation_to_group or
\* to main, which adds it
RelationReturn ==
    /\ pc = "relations" /\ stack # <<>> /\ Top.i > Len(Top.rel.refs)
    /\ IF Len(stack) = 1
       THEN /\ svg' = Add(svg, Top.group)
            /\ stack' = <<>>
       ELSE /\ stack' = [SubSeq(stack, 1, Len(stack) - 1)
                            EXCEPT ![Len(stack) - 1].group = Add(@, Top.group)]
            /\ svg' = svg
    /\ last' = [op |-> "relation_to_group", rel |-> Top.rel.id, group |-> Top.group]
    /\ UNCHANGED <<objs, relations, ways, pc, bound, stderr,
                   reqRels, reqWays, updates, lookups, maxDepth>>

\* main, second loop: the next requested way is in objs
MainWayFound ==
    /\ pc = "ways" /\ ways # {}
    /\ LET way == next_id(ways) IN
        /\ WayRef(way) \in DOMAIN objs
        /\ ways' = ways \ {way}
        /\ LET res == way_to_path(objs, bound, objs[WayRef(way)]) IN
            /\ svg' = Add(svg, res.path)
            /\ bound' = res.bound
            /\ stderr' = stderr \o res.err
            /\ updates' = updates \o res.updates
            /\ lookups' = Append(lookups, Lookup(objs, WayRef(way), Main)) \o res.lookups
            /\ last' = [op |-> "way_to_path", way |-> way, before |-> bound,
                        path |-> res.path, updates |-> res.updates]
    /\ UNCHANGED <<objs, relations, pc, stack, reqRels, reqWays, maxDepth>>

\* main, second loop: the next requested way is not in objs
MainWayMissing ==
    /\ pc = "ways" /\ ways # {}
    /\ LET way == next_id(ways) IN
        /\ WayRef(way) \notin DOMAIN objs
        /\ ways' = ways \ {way}
        /\ stderr' = Append(stderr, [fmt |-> "way {} not found", args |-> <<Num(way)>>])
        /\ lookups' = Append(lookups, Lookup(objs, WayRef(way), Main))
    /\ last' = [op |-> "skip"]
    /\ UNCHANGED <<objs, relations, pc, stack, bound, svg, reqRels, reqWays, updates, maxDepth>>

\* main: the second loop is over
MainWaysEnd ==
    /\ pc = "ways" /\ ways = {}
    /\ pc' = "viewport"
    /\ last' = [op |-> "none"]
    /\ UNCHANGED <<objs, relations, ways, stack, bound, svg, stderr,
                   reqRels, reqWays, updates, lookups, maxDepth>>

\* the viewBox main gives the document for the bound b
ViewBox(b) ==
    LET upper_left == project(ToRadians(b.lat.end), ToRadians(b.lon.start))
        lower_right == project(ToRadians(b.lat.start), ToRadians(b.lon.end))
    IN  <<upper_left[1], upper_left[2],
          lower_right[1] - upper_left[1], lower_right[2] - upper_left[2]>>

\* main: the viewBox is set from the bound and the document is written
MainViewport ==
    /\ pc = "viewport"
    /\ svg' = IF ~is_empty(bound) THEN SetAttr(svg, "viewBox", ViewBox(bound)) ELSE svg
    /\ pc' = "done"
    /\ last' = [op |-> "none"]
    /\ UNCHANGED <<objs, relations, ways, stack, bound, stderr,
                   reqRels, reqWays, updates, lookups, maxDepth>>

Next ==
    \/ MainRelationFound
    \/ MainRelationMissing
    \/ MainRelationsEnd
    \/ MemberMissing
    \/ MemberWay
    \/ MemberRelation
    \/ MemberNode
    \/ RelationReturn
    \/ MainWayFound
    \/ MainWayMissing
    \/ MainWaysEnd
    \/ MainViewport

Spec == Init /\ [][Next]_vars

\* main runs to its end or to its death, no step is put off for ever; the
\* runs are those over the extracts of relations with relation 1, or
\* relations 1 and 2, requested
InitFair == InitRelations({1, 2})

FairSpec == InitFair /\ [][Next]_vars /\ WF_vars(Next)

----------------------------------------------------------------------------
(* Vocabulary of the properties *)

Done == pc = "done"

Lats == {updates[i].lat : i \in DOMAIN updates}
Lons == {updates[i].lon : i \in DOMAIN updates}

\* the node references of a way that objs resolves, in the way's order
Resolved(way) ==
    LET Present(n) == NodeRef(n) \in DOMAIN objs
    IN  SelectSeq(way.nodes, Present)

\* the members of a relation that are drawn: ways and relations found in objs
Drawn(rel) ==
    LET Shown(m) == m \in DOMAIN objs /\ m[1] \in {"Way", "Relation"}
    IN  SelectSeq(rel.refs, Shown)

\* the relations that are members of relation r, both being in objs
SubRelations(r) ==
    {m[2] : m \in {x \in Range_(objs[RelRef(r)].refs) :
                      x[1] = "Relation" /\ x \in DOMAIN objs}}

RECURSIVE Reach(_)
Reach(S) ==
    LET T == S \cup UNION {SubRelations(r) : r \in S}
    IN  IF T = S THEN S ELSE Reach(T)

RequestedPresent == {r \in reqRels : RelRef(r) \in DOMAIN objs}

\* a relation that has itself as a member, directly or through others
OnCycle(r) == r \in Reach(SubRelations(r))

CycleReachable == \E r \in Reach(RequestedPresent) : OnCycle(r)

Acyclic == \A r \in Ids : RelRef(r) \in DOMAIN objs => ~OnCycle(r)

RECURSIVE ChainFrom(_)
ChainFrom(r) ==
    IF SubRelations(r) = {} THEN 1
    ELSE 1 + Max({ChainFrom(q) : q \in SubRelations(r)})

LongestChain ==
    IF RequestedPresent = {} THEN 0
    ELSE Max({ChainFrom(r) : r \in RequestedPresent})

Missed == LET Absent(l) == ~l.found IN SelectSeq(lookups, Absent)

----------------------------------------------------------------------------
(* Bound *)

\* C1: a fresh Bound is empty, one update(p) collapses it onto p for any p,
\* and is_empty() holds exactly as long as update has never been called
C1_EmptyIffNeverUpdated ==
    /\ is_empty(Bound_new)
    /\ is_empty(bound) <=> updates = <<>>
    /\ Len(updates) = 1 =>
          /\ bound.lat = Range(updates[1].lat, updates[1].lat)
          /\ bound.lon = Range(updates[1].lon, updates[1].lon)

\* C2: after the updates with a non-empty sequence of points the bound is the
\* smallest rectangle holding them all: the extremes of their coordinates
C2_SmallestRectangle ==
    updates # <<>> =>
        /\ bound.lat = Range(Min(Lats), Max(Lats))
        /\ bound.lon = Range(Min(Lons), Max(Lons))

\* C3: the finished document has no viewBox if no node coordinate was
\* rendered and otherwise the viewBox of the extremes of all the rendered
\* coordinates; the viewBox is set only once all the rendering is over
C3_ViewBox ==
    /\ HasAttr(svg, "viewBox") => Done /\ relations = {} /\ ways = {} /\ stack = <<>>
    /\ Done =>
        IF updates = <<>> THEN ~HasAttr(svg, "viewBox")
        ELSE /\ HasAttr(svg, "viewBox")
             /\ LET origin == project(ToRadians(Max(Lats)), ToRadians(Min(Lons)))
                    corner == project(ToRadians(Min(Lats)), ToRadians(Max(Lons)))
                IN  svg.attrs["viewBox"] =
                        <<origin[1], origin[2],
                          corner[1] - origin[1], corner[2] - origin[2]>>

----------------------------------------------------------------------------
(* way_to_path *)

WayReturned == last.op = "way_to_path"

\* C4: way_to_path returns the projections of the way's resolvable node
\* references, in order, repeats kept, the first by a move and the others by
\* lines; Bound::update was called once per point, in that order; a way
\* with no resolvable node has no point and leaves the bound as it was
C4_WayToPath ==
    WayReturned =>
        LET way == objs[WayRef(last.way)]
            res == Resolved(way)
            d == last.path.attrs["d"]
            calls == Len(updates) - Len(res)
        IN  /\ Len(d) = Len(res)
            /\ \A i \in 1..Len(res) :
                  /\ d[i].to = project_node(objs[NodeRef(res[i])])
                  /\ d[i].cmd = IF i = 1 THEN "M" ELSE "L"
            /\ calls >= 0
            /\ \A i \in 1..Len(res) : updates[calls + i] = objs[NodeRef(res[i])]
            /\ last.updates = SubSeq(updates, calls + 1, Len(updates))
            /\ res = <<>> => d = <<>> /\ bound = last.before

\* a way of two references, one of them skipped, has returned
C4_Witness ==
    /\ WayReturned
    /\ Len(objs[WayRef(last.way)].nodes) = 2
    /\ Len(last.path.attrs["d"]) = 1
    /\ last.updates # <<>>

----------------------------------------------------------------------------
(* relation_to_group *)

RelationReturned == last.op = "relation_to_group"

\* the group returned has the relation's id and one child per drawn member
GroupOfRelation ==
    RelationReturned =>
        LET rel == objs[RelRef(last.rel)]
            kids == last.group.children
            exp == Drawn(rel)
        IN  /\ last.group.name = "g"
            /\ last.group.attrs["id"] = rel.id
            /\ Len(kids) = Len(exp)
            /\ \A i \in 1..Len(exp) :
                  /\ kids[i].name = IF exp[i][1] = "Way" THEN "path" ELSE "g"
                  /\ kids[i].attrs["id"] = exp[i][2]

\* relation_to_group is at a member that is a node
AtNodeMember ==
    /\ pc = "relations" /\ stack # <<>>
    /\ Top.i <= Len(Top.rel.refs)
    /\ Top.rel.refs[Top.i][1] = "Node"

\* the step over a member adds no child and calls no Bound::update
NoChildNoUpdate ==
    /\ bound' = bound /\ updates' = updates
    /\ Len(stack') = Len(stack)
    /\ stack'[Len(stack)].group = Top.group

\* C5, as claimed: the group has the relation's id and, in member order, a
\* path per way member and a group per relation member found in objs; a node
\* member gives no child, no bound update and no diagnostic
C5_AsClaimed ==
    /\ []GroupOfRelation
    /\ [][AtNodeMember => NoChildNoUpdate /\ stderr' = stderr]_vars

\* C5, amended: ... a node member gives no child and no bound update, and no
\* diagnostic if it is in objs; a node member that is not in objs gives the
\* one diagnostic of a missing member
C5_RelationToGroup ==
    /\ []GroupOfRelation
    /\ [][AtNodeMember =>
            /\ NoChildNoUpdate
            /\ IF Top.rel.refs[Top.i] \in DOMAIN objs
               THEN stderr' = stderr
               ELSE Len(stderr') = Len(stderr) + 1]_vars

\* a relation with a missing node member and a drawn member has returned
C5_Witness ==
    /\ RelationReturned
    /\ \E i \in DOMAIN objs[RelRef(last.rel)].refs :
          objs[RelRef(last.rel)].refs[i] = NodeRef(2)
    /\ Len(last.group.children) = 1
    /\ \E i \in DOMAIN stderr : stderr[i].fmt = "ref {:?} of relation {} not found"

----------------------------------------------------------------------------
(* Diagnostics *)

\* the line names the reference that was missed and, unless main made the
\* look-up, the way or the relation that holds the reference
Identifies(line, look) ==
    /\ line.args[1].id = look.ref[2]
    /\ look.by # Main => \E j \in DOMAIN line.args : j > 1 /\ line.args[j].id = look.by[2]

\* C6: each reference looked up and not found gives one line on stderr, which
\* names the missing id and its container; a reference found gives none
C6_OneLinePerMiss ==
    /\ Len(stderr) = Len(Missed)
    /\ \A i \in 1..Len(Missed) : i <= Len(stderr) => Identifies(stderr[i], Missed[i])

----------------------------------------------------------------------------
(* main *)

IdOf(el) == el.attrs["id"]

\* C7: the finished document holds a group per requested relation found in
\* objs, ascending, then a path per requested way found in objs, ascending;
\* a requested id that is missing has its one line on stderr and no element
C7_TopLevel ==
    Done =>
        LET kids == svg.children
            rs == {r \in reqRels : RelRef(r) \in DOMAIN objs}
            ws == {w \in reqWays : WayRef(w) \in DOMAIN objs}
            k == Cardinality(rs)
            Line(what, n) == [fmt |-> what, args |-> <<Num(n)>>]
            Count(line) == Cardinality({i \in DOMAIN stderr : stderr[i] = line})
        IN  /\ Len(kids) = k + Cardinality(ws)
            /\ \A i \in 1..Len(kids) : kids[i].name = IF i <= k THEN "g" ELSE "path"
            /\ {IdOf(kids[i]) : i \in 1..k} = rs
            /\ {IdOf(kids[i]) : i \in (k + 1)..Len(kids)} = ws
            /\ \A i, j \in 1..Len(kids) :
                  i < j /\ (j <= k \/ i > k) => IdOf(kids[i]) < IdOf(kids[j])
            /\ \A r \in reqRels \ rs : Count(Line("relation {} not found", r)) = 1
            /\ \A w \in reqWays \ ws : Count(Line("way {} not found", w)) = 1

\* a run with a missing relation, a missing way and two elements has ended
C7_Witness ==
    /\ Done
    /\ Len(svg.children) >= 2
    /\ \E r \in reqRels : RelRef(r) \notin DOMAIN objs
    /\ \E w \in reqWays : WayRef(w) \notin DOMAIN objs

\* C8: over an acyclic store the pass ends, whatever is missing, repeated or
\* shared, and the deepest nesting of relation_to_group is the longest chain
\* of relations within relations from a requested relation
C8_Terminates ==
    /\ Acyclic => <>Done
    /\ [](Done => maxDepth = LongestChain)

\* a run over nested relations with a missing reference has ended
C8_Witness ==
    /\ Done
    /\ maxDepth = 2
    /\ Missed # <<>>

----------------------------------------------------------------------------
(* set_stroke *)

\* the value of the tag colour, if it begins with #
Hex(tags) ==
    IF "colour" \in DOMAIN tags /\ tags["colour"] # <<>> /\ Head(tags["colour"]) = "#"
    THEN {tags["colour"]} ELSE {}

StrokeOf(el) == IF HasAttr(el, "stroke") THEN {el.attrs["stroke"]} ELSE {}

\* C9: the path or group returned has a stroke exactly if the tags have a
\* colour that begins with #, and the stroke is then that value as it is
C9_Stroke ==
    /\ WayReturned => StrokeOf(last.path) = Hex(objs[WayRef(last.way)].tags)
    /\ RelationReturned => StrokeOf(last.group) = Hex(objs[RelRef(last.rel)].tags)

\* a group of colour "#" has returned, and so has a path of a named colour
C9_Witness ==
    /\ RelationReturned
    /\ StrokeOf(last.group) = {<<"#">>}
    /\ DOMAIN objs[RelRef(last.rel)].tags = TagKeys
    /\ \E i \in DOMAIN last.group.children : ~HasAttr(last.group.children[i], "stroke")

----------------------------------------------------------------------------
(* Cycles *)

\* C10: when a requested relation reaches a relation that contains itself,
\* the recursion never returns to main: the call stack grows until it is
\* exhausted, the viewport step is never reached and no document is written
C10_NoCycleGuard ==
    /\ [](CycleReachable => pc \notin {"ways", "viewport", "done"} /\ ~HasAttr(svg, "viewBox"))
    /\ CycleReachable => <>(pc = "overflow" /\ Len(stack) = MaxDepth)

\* the stack is exhausted inside a cycle that the requested relation only leads to
C10_Witness ==
    /\ pc = "overflow"
    /\ Len(stack) = MaxDepth
    /\ stack[1].rel.id # stack[2].rel.id
    /\ stack[2].rel.id = stack[3].rel.id

====
